---------------------------- MODULE Spec2Model ----------------------------
(***************************************************************************)
(* Vision Code: the App component (frame playback controller), the         *)
(* analysis service it calls, and the Visualizer component that draws the  *)
(* current frame with a d3 force simulation.                               *)
(*                                                                         *)
(* One action of the model is one browser event (a click, an input event,  *)
(* a timer expiry, the settling of the analysis promise) together with the *)
(* React work it causes: the batched state updates of the handler, the     *)
(* re-render, and the passive effects run until no further update is       *)
(* queued.  The states between two actions are the settled states of the   *)
(* component.                                                              *)
(***************************************************************************)
EXTENDS Integers, Sequences, FiniteSets, TLC

VARIABLES
  mode,               \* useState<EditorMode>
  code,               \* useState<string>, a sequence of characters
  analysis,           \* useState<AnalysisResult | null>
  loading,            \* useState<boolean>
  error,              \* useState<string | null>
  currentFrameIndex,  \* useState<number>
  isPlaying,          \* useState<boolean>
  playbackRef,        \* useRef: a timer id, 0 for null
  isDarkMode,         \* useState<boolean>
  timers,             \* the browser's pending timeouts (ids)
  nextTimerId,        \* the id the next setTimeout returns
  inflight,           \* analyzeCode calls awaiting their response
  crashed,            \* a render or an effect threw: React unmounted the root
  lastOp,             \* the event handled last
  ops,                \* number of user events handled so far
  dimensions,         \* Visualizer: useState({ width, height })
  node,               \* Visualizer: the node elements in the svg
  link,               \* Visualizer: the line elements in the svg
  simulations,        \* force simulations whose timer runs
  cleanup,            \* the render effect returned its cleanup (simulation.stop)
  ticked,             \* the simulation whose tick handler drew the view last
  drag,               \* the drag gesture in progress, << >> if none
  pinned,             \* the shown nodes with fx/fy set, and where
  mutated             \* objects of the stored frames the renderer wrote to

appVars == <<mode, code, analysis, loading, error, currentFrameIndex, isPlaying,
             playbackRef, isDarkMode, timers, nextTimerId, inflight, crashed>>

vizVars == <<node, link, simulations, cleanup, ticked, drag, pinned, mutated>>

vars == <<mode, code, analysis, loading, error, currentFrameIndex, isPlaying,
          playbackRef, isDarkMode, timers, nextTimerId, inflight, crashed,
          lastOp, ops, dimensions, node, link, simulations, cleanup, ticked,
          drag, pinned, mutated>>

---------------------------------------------------------------------------
(* Bounds *)

MaxLen == 3         \* longest frame list a response carries
MaxOps == 5         \* user events per behaviour
MaxSeek == 5        \* largest index a seek asks for (the smallest is -1)
MaxPos == 1         \* pointer positions are 0..MaxPos

---------------------------------------------------------------------------
(* Data *)

EditorMode == {"python", "javascript", "java"}

\* The three templates differ and none is blank; the text is abbreviated.
CODE_TEMPLATES ==
  [m \in EditorMode |->
     CASE m = "python"     -> <<"c", "l", "a", "s", "s", " ", "N", ":">>
       [] m = "javascript" -> <<"c", "l", "a", "s", "s", " ", "N", "{">>
       [] m = "java"       -> <<"p", "u", "b", "l", "i", "c">>]

\* What the user types into the textarea.
CodeInputs == {<< >>, <<" ", "\n">>, <<" ", "x", " ">>}

Whitespace == {" ", "\n", "\t"}

RECURSIVE TrimStart(_)
TrimStart(s) ==
  IF s # << >> /\ Head(s) \in Whitespace THEN TrimStart(Tail(s)) ELSE s

RECURSIVE TrimEnd(_)
TrimEnd(s) ==
  IF s # << >> /\ s[Len(s)] \in Whitespace
  THEN TrimEnd(SubSeq(s, 1, Len(s) - 1)) ELSE s

\* String.prototype.trim
Trim(s) == TrimEnd(TrimStart(s))

\* A value of the analysis state.  tag "null" is null; an object either has a
\* frames list or has none (frames is then undefined).
Null == [tag |-> "null", hasFrames |-> FALSE, frames |-> << >>]

NoFramesObject == [tag |-> "obj", hasFrames |-> FALSE, frames |-> << >>]

GraphNode(id) == [id |-> id, label |-> id]

GraphEdge(s, t) == [source |-> s, target |-> t]

\* The graphs of the traces.  "a": a list that grows from nothing to two linked
\* nodes and then to a cycle.  "b": a node, a second node pointing to it, the
\* first node deleted, nothing.  "d": as "a" from its second frame on, but
\* with edges that name a node the frame does not contain.
FrameNodes(i, v) ==
  CASE v = "a" -> (IF i = 0 THEN << >>
                   ELSE IF i = 1 THEN <<GraphNode("n1")>>
                   ELSE <<GraphNode("n1"), GraphNode("n2")>>)
    [] v = "b" -> (IF i = 0 THEN <<GraphNode("n1")>>
                   ELSE IF i = 1 THEN <<GraphNode("n1"), GraphNode("n2")>>
                   ELSE IF i = 2 THEN <<GraphNode("n2")>>
                   ELSE << >>)
    [] v = "d" -> (IF i <= 1 THEN <<GraphNode("n1")>>
                   ELSE <<GraphNode("n1"), GraphNode("n2")>>)

FrameEdges(i, v) ==
  CASE v = "a" -> (IF i <= 1 THEN << >>
                   ELSE IF i = 2 THEN <<GraphEdge("n1", "n2")>>
                   ELSE <<GraphEdge("n1", "n2"), GraphEdge("n2", "n1")>>)
    [] v = "b" -> (IF i = 1 THEN <<GraphEdge("n2", "n1")>> ELSE << >>)
    [] v = "d" -> (IF i = 0 THEN << >>
                   ELSE IF i = 1 THEN <<GraphEdge("n1", "n2")>>
                   ELSE <<GraphEdge("n1", "n2"), GraphEdge("n3", "n1")>>)

Frame(i, v) == [step |-> i, lineCode |-> v,
                nodes |-> FrameNodes(i, v), edges |-> FrameEdges(i, v)]

Result(L, v) ==
  [tag |-> "obj", hasFrames |-> TRUE, frames |-> [i \in 1..L |-> Frame(i - 1, v)]]

\* The well-formed results the service may produce: every length up to
\* MaxLen, two distinguishable traces of each length.
Results == {Result(L, v) : L \in 0..MaxLen, v \in {"a", "b"}}

\* Results that fit the response schema but have an edge whose source or
\* target is no node of its frame.
DanglingResults == {Result(L, "d") : L \in 2..MaxLen}

\* The viewport sizes the wrapper takes
Sizes == {<<800, 600>>, <<400, 300>>}

Positions == 0..MaxPos

Truthy(a) == a.tag # "null"

---------------------------------------------------------------------------
(* Number <-> string, as the range input and parseInt do it *)

Digits == <<"0", "1", "2", "3", "4", "5", "6", "7", "8", "9">>

RECURSIVE NatToString(_)
NatToString(n) ==
  IF n < 10 THEN <<Digits[n + 1]>>
  ELSE NatToString(n \div 10) \o <<Digits[(n % 10) + 1]>>

NumberToString(n) == IF n < 0 THEN <<"-">> \o NatToString(-n) ELSE NatToString(n)

DigitValue(c) == CHOOSE d \in 0..9 : Digits[d + 1] = c

RECURSIVE ParseDigits(_, _)
ParseDigits(s, acc) ==
  IF s = << >> THEN acc
  ELSE ParseDigits(Tail(s), 10 * acc + DigitValue(Head(s)))

\* parseInt on the decimal strings a range input produces
parseInt(s) ==
  IF s # << >> /\ Head(s) = "-" THEN -ParseDigits(Tail(s), 0)
  ELSE ParseDigits(s, 0)

\* Mutant: a range input that reports the requested position unclamped.
RangeInputValueUnclamped(requested, min, max) == NumberToString(requested)

\* Mutant: a range input that clamps to the maximum even below the minimum.
RangeInputValueEmptyRange(requested, min, max) ==
  NumberToString(IF requested > max THEN max
                 ELSE IF requested < min THEN min
                 ELSE requested)

\* <input type="range" min="0" max={frames.length - 1}>: the value the
\* element reports when the user asks for position `requested`.
RangeInputValue(requested, min, max) ==
  NumberToString(IF max < min THEN min
                 ELSE IF requested < min THEN min
                 ELSE IF requested > max THEN max
                 ELSE requested)

---------------------------------------------------------------------------
(* analyzeCode *)

\* What ai.models.generateContent does: it rejects, or it resolves with a
\* response whose text is empty, is not JSON, is the JSON null, is a JSON
\* object without frames, or is the JSON of a well-formed result.
Responses ==
  {[rejects |-> TRUE, text |-> "", value |-> Null]}
    \cup {[rejects |-> FALSE, text |-> t, value |-> Null] :
            t \in {"", "not json", "null"}}
    \cup {[rejects |-> FALSE, text |-> "{}", value |-> NoFramesObject]}
    \cup {[rejects |-> FALSE, text |-> "result", value |-> r] : r \in Results}

DanglingResponses ==
  {[rejects |-> FALSE, text |-> "result", value |-> r] : r \in DanglingResults}

\* JSON.parse(response.text || "{}"): does it throw, and what it returns
JSONparseThrows(resp) == resp.text = "not json"

JSONparse(resp) ==
  IF resp.text = "" THEN NoFramesObject     \* the "{}" default
  ELSE resp.value

\* analyzeCode: [throws, result]
analyzeCode(resp) ==
  IF resp.rejects \/ JSONparseThrows(resp)
  THEN [throws |-> TRUE, result |-> Null]
  ELSE [throws |-> FALSE, result |-> JSONparse(resp)]

---------------------------------------------------------------------------
(* Rendering and the playback effect *)

\* analysis?.frames.length || 0   (never evaluated on an object without frames:
\* the render that precedes the effect has thrown)
FramesLengthOr0(a) == IF Truthy(a) THEN Len(a.frames) ELSE 0

\* The render of App reads analysis.frames.length whenever analysis is truthy.
RenderThrows(a) == Truthy(a) /\ ~a.hasFrames

\* const currentFrame = ...;  << >> stands for null/undefined, <<f>> for f
currentFrameOf(a, i) ==
  IF Truthy(a) /\ Len(a.frames) > 0
  THEN (IF i + 1 \in 1..Len(a.frames) THEN <<a.frames[i + 1]>> ELSE << >>)
  ELSE << >>

\* The controls block is rendered only for a non-empty frame list.
ControlsVisible == Truthy(analysis) /\ analysis.hasFrames /\ Len(analysis.frames) > 0

PrevDisabled == currentFrameIndex = 0

NextDisabled == currentFrameIndex = Len(analysis.frames) - 1

\* Mutant: a cleanup that clears nothing.
EffectCleanupClearsNothing(s) == s

\* The effect's cleanup: clear the timeout playbackRef names, if any.
EffectCleanup(s) ==
  IF s.playbackRef # 0 THEN [s EXCEPT !.timers = @ \ {s.playbackRef}] ELSE s

\* Mutant: the timer is armed up to and including the last index.
EffectBodyOffByOne(s) ==
  IF s.isPlaying /\ Truthy(s.analysis)
       /\ s.currentFrameIndex <= Len(s.analysis.frames) - 1
  THEN [s EXCEPT !.playbackRef = s.nextTimerId,
                 !.timers = @ \cup {s.nextTimerId},
                 !.nextTimerId = @ + 1]
  ELSE IF s.currentFrameIndex >= FramesLengthOr0(s.analysis) - 1
  THEN [s EXCEPT !.isPlaying = FALSE]
  ELSE s

\* Mutant: playback is not switched off at the last index.
EffectBodyNoAutoPause(s) ==
  IF s.isPlaying /\ Truthy(s.analysis)
       /\ s.currentFrameIndex < Len(s.analysis.frames) - 1
  THEN [s EXCEPT !.playbackRef = s.nextTimerId,
                 !.timers = @ \cup {s.nextTimerId},
                 !.nextTimerId = @ + 1]
  ELSE s

\* The effect's body.
EffectBody(s) ==
  IF s.isPlaying /\ Truthy(s.analysis)
       /\ s.currentFrameIndex < Len(s.analysis.frames) - 1
  THEN [s EXCEPT !.playbackRef = s.nextTimerId,
                 !.timers = @ \cup {s.nextTimerId},
                 !.nextTimerId = @ + 1]
  ELSE IF s.currentFrameIndex >= FramesLengthOr0(s.analysis) - 1
  THEN [s EXCEPT !.isPlaying = FALSE]
  ELSE s

\* One commit whose dependencies changed: cleanup of the previous effect, then
\* the new effect.
EffectPass(s) == EffectBody(EffectCleanup(s))

\* The effect may queue setIsPlaying(false); that re-renders and runs the
\* effect once more, after which nothing changes.
Settle(s) ==
  LET s1 == EffectPass(s)
  IN  IF s1.isPlaying # s.isPlaying THEN EffectPass(s1) ELSE s1

---------------------------------------------------------------------------
(* Visualizer: the render effect *)

\* The Visualizer as a record.  threw: the effect threw.
Visualizer == [node |-> node, link |-> link, simulations |-> simulations,
               cleanup |-> cleanup, ticked |-> ticked, drag |-> drag,
               pinned |-> pinned, mutated |-> mutated, threw |-> FALSE]

\* nodes={currentFrame?.nodes || []}
propNodes(a, i) ==
  IF currentFrameOf(a, i) = << >> THEN << >> ELSE currentFrameOf(a, i)[1].nodes

\* edges={currentFrame?.edges || []}
propEdges(a, i) ==
  IF currentFrameOf(a, i) = << >> THEN << >> ELSE currentFrameOf(a, i)[1].edges

\* The arrays passed as props, by identity: those of frame i of result a, or
\* new empty arrays, which an effect run leaves as they were found.
PropsIdentity(a, i) ==
  IF currentFrameOf(a, i) = << >> THEN << >> ELSE <<a, i>>

\* Mutant: the frame's edge objects handed to the simulation.
CopyEdgesAliased(edges) ==
  [k \in DOMAIN edges |->
     [source |-> edges[k].source, target |-> edges[k].target, object |-> "stored"]]

\* const links = propEdges.map(d => ({ ...d }))
CopyEdges(edges) ==
  [k \in DOMAIN edges |->
     [source |-> edges[k].source, target |-> edges[k].target, object |-> "copy"]]

\* const nodes = propNodes.map(d => ({ ...d }))
CopyNodes(nodes) ==
  [k \in DOMAIN nodes |->
     [id |-> nodes[k].id, label |-> nodes[k].label, object |-> "copy"]]

\* The stored objects among objs, as <<what, frame index, position>>
StoredObjects(what, i, objs) ==
  {<<what, i, k>> : k \in {j \in DOMAIN objs : objs[j].object = "stored"}}

NodeIds(nodes) == {nodes[k].id : k \in DOMAIN nodes}

\* forceLink(links).id(d => d.id), when registered, replaces source and target
\* of each link by the node with that id; d3-force throws "node not found"
\* for an id no node has.
LinkForceThrows(nodes, links) ==
  \E k \in DOMAIN links :
     links[k].source \notin NodeIds(nodes) \/ links[k].target \notin NodeIds(nodes)

Detached(d) == IF d = << >> THEN d ELSE <<[d[1] EXCEPT !.detached = TRUE]>>

\* return () => { simulation.stop(); }, if the last run of the effect
\* returned it
RenderCleanup(v) ==
  IF v.cleanup
  THEN [v EXCEPT !.simulations = @ \ {"current"}, !.cleanup = FALSE]
  ELSE v

\* What the last run of the effect created is no longer the latest: its
\* elements are not new, a simulation of it still running is a stale one.
Age(v) ==
  [v EXCEPT !.node = {[e EXCEPT !.fresh = FALSE] : e \in @},
            !.link = {[e EXCEPT !.fresh = FALSE] : e \in @},
            !.simulations = {IF x = "current" THEN "stale" ELSE x : x \in @},
            !.ticked = "none"]

\* Mutant: nothing is removed before the new elements are appended.
ClearSvgKeepsElements(v) ==
  [v EXCEPT !.pinned = {}, !.drag = Detached(@)]

\* svg.selectAll("*").remove(): the elements go, and with them the node
\* objects bound to them; a gesture in progress keeps its detached node.
ClearSvg(v) ==
  [v EXCEPT !.node = {}, !.link = {}, !.pinned = {}, !.drag = Detached(@)]

\* The body of the render effect for frame i with arrays nodes0 and edges0.
RenderBody(v, i, nodes0, edges0, isLoading) ==
  IF isLoading THEN v
  ELSE IF Len(nodes0) = 0 /\ Len(edges0) = 0 THEN ClearSvg(v)
  ELSE
    LET c == ClearSvg(v)
        links == CopyEdges(edges0)
        nodes == CopyNodes(nodes0)
        \* forceSimulation(nodes) writes index, x, y to the nodes and starts
        started == [c EXCEPT !.mutated = @ \cup StoredObjects("node", i, nodes)]
    IN  IF LinkForceThrows(nodes, links)
        THEN [started EXCEPT !.simulations = @ \cup {"leaked"}, !.threw = TRUE]
        ELSE [started EXCEPT
                !.simulations = @ \cup {"current"},
                !.mutated = @ \cup StoredObjects("edge", i, links),
                !.link = @ \cup {[source |-> links[k].source,
                                 target |-> links[k].target,
                                 fresh |-> TRUE] : k \in DOMAIN links},
                !.node = @ \cup {[id |-> nodes[k].id, label |-> nodes[k].label,
                                 fresh |-> TRUE] : k \in DOMAIN nodes},
                !.cleanup = TRUE]

\* One run of the render effect: the previous cleanup, then the body.
RenderEffect(v, i, nodes0, edges0, isLoading) ==
  RenderBody(Age(RenderCleanup(v)), i, nodes0, edges0, isLoading)

\* The Visualizer is discarded: its cleanup runs and its svg leaves the page.
Unmount(v) == ClearSvg(Age(RenderCleanup(v)))

\* What a commit of App with result a, cursor i and the new loading, error,
\* isDarkMode and dimensions does to the Visualizer: it is rendered unless
\* the error panel is, and its effect runs when a dependency changed.
VisualizerCommit(a, i) ==
  IF RenderThrows(a) \/ error'
  THEN (IF error THEN Visualizer ELSE Unmount(Visualizer))
  ELSE IF error
         \/ <<PropsIdentity(a, i), dimensions', isDarkMode', loading'>>
              # <<PropsIdentity(analysis, currentFrameIndex), dimensions,
                   isDarkMode, loading>>
  THEN RenderEffect(Visualizer, i, propNodes(a, i), propEdges(a, i), loading')
  ELSE Visualizer

\* Re-render with the batched values a, i, p (and the timer table tm), then
\* the effects: the Visualizer's first, App's after it.  An effect that throws
\* makes React unmount the root, which runs App's cleanup.  Two results of equal content stand for the same object:
\* between two installed results analysis is always null, so the effect's
\* dependency check sees every installation.
Commit(a, i, p, tm) ==
  LET s0 == [analysis |-> a, currentFrameIndex |-> i, isPlaying |-> p,
             playbackRef |-> playbackRef, timers |-> tm,
             nextTimerId |-> nextTimerId]
      depsChanged == <<p, i, a>> # <<isPlaying, currentFrameIndex, analysis>>
      s == IF RenderThrows(a) THEN EffectCleanup(s0)      \* unmount
           ELSE IF depsChanged THEN Settle(s0)
           ELSE s0
  IN  \E v \in {VisualizerCommit(a, i)} :
      \E t \in {IF v.threw THEN EffectCleanup(s) ELSE s} :
        /\ analysis' = t.analysis
        /\ currentFrameIndex' = t.currentFrameIndex
        /\ isPlaying' = t.isPlaying
        /\ playbackRef' = t.playbackRef
        /\ timers' = t.timers
        /\ nextTimerId' = t.nextTimerId
        /\ crashed' = (RenderThrows(a) \/ v.threw)
        /\ node' = v.node
        /\ link' = v.link
        /\ simulations' = v.simulations
        /\ cleanup' = v.cleanup
        /\ ticked' = v.ticked
        /\ drag' = v.drag
        /\ pinned' = v.pinned
        /\ mutated' = v.mutated

\* The screen a run request replaced; kept with the request for the record,
\* the code never reads it.
Screen == [analysis |-> analysis, currentFrameIndex |-> currentFrameIndex,
           isPlaying |-> isPlaying, timers |-> timers, mode |-> mode]

NoScreen == [analysis |-> Null, currentFrameIndex |-> 0, isPlaying |-> FALSE,
             timers |-> {}, mode |-> ""]

\* The record of an event: its handler, the index a seek asked for, how the
\* analysis call ended ("rejects", "unparseable", "resolves"), the screen its
\* run request replaced, and the cursor, flag and timers it found.
Event(name, arg, call, previous) ==
  [name |-> name, arg |-> arg, call |-> call, previous |-> previous,
   idx0 |-> currentFrameIndex, playing0 |-> isPlaying, timers0 |-> timers]

UserOp(name, arg) == /\ ~crashed
                     /\ ops < MaxOps
                     /\ ops' = ops + 1
                     /\ lastOp' = Event(name, arg, "", NoScreen)

---------------------------------------------------------------------------
(* Initial state: after the first render and the effects of the mount *)

Init ==
  /\ mode = "python"
  /\ code = CODE_TEMPLATES["python"]
  /\ analysis = Null
  /\ loading = FALSE
  /\ error = FALSE
  /\ currentFrameIndex = 0
  /\ isPlaying = FALSE
  /\ playbackRef = 0
  /\ isDarkMode = TRUE
  /\ timers = {}
  /\ nextTimerId = 1
  /\ inflight = << >>
  /\ crashed = FALSE
  /\ lastOp = [name |-> "mount", arg |-> 0, call |-> "", previous |-> NoScreen,
               idx0 |-> 0, playing0 |-> FALSE, timers0 |-> {}]
  /\ ops = 0
  /\ dimensions = <<800, 600>>
  /\ node = {}
  /\ link = {}
  /\ simulations = {}
  /\ cleanup = FALSE
  /\ ticked = "none"
  /\ drag = << >>
  /\ pinned = {}
  /\ mutated = {}

---------------------------------------------------------------------------
(* Handlers *)

\* Mutant: a mode change that leaves the error on screen.
handleModeChangeKeepsError(newMode) ==
  /\ UserOp("handleModeChange", 0)
  /\ mode' = newMode
  /\ code' = CODE_TEMPLATES[newMode]
  /\ error' = error
  /\ UNCHANGED <<loading, isDarkMode, inflight, dimensions>>
  /\ Commit(Null, 0, FALSE, timers)

handleModeChange(newMode) ==
  /\ UserOp("handleModeChange", 0)
  /\ mode' = newMode
  /\ code' = CODE_TEMPLATES[newMode]
  /\ error' = FALSE
  /\ UNCHANGED <<loading, isDarkMode, inflight, dimensions>>
  /\ Commit(Null, 0, FALSE, timers)

\* Mutant: a Run button that stays enabled while loading.
handleRunWhileLoading ==
  /\ UserOp("handleRun", 0)
  /\ UNCHANGED <<mode, code, isDarkMode, dimensions>>
  /\ IF Trim(code) = << >>
     THEN UNCHANGED <<analysis, loading, error, currentFrameIndex, isPlaying,
                      playbackRef, timers, nextTimerId, inflight, crashed,
                      vizVars>>
     ELSE /\ loading' = TRUE
          /\ error' = FALSE
          /\ inflight' = Append(inflight, [code |-> code, mode |-> mode,
                                            previous |-> Screen])
          /\ Commit(Null, 0, FALSE, timers)

\* Mutant: a run that tests the code for emptiness without trimming it.
handleRunNoTrim ==
  /\ UserOp("handleRun", 0)
  /\ ~loading
  /\ UNCHANGED <<mode, code, isDarkMode, dimensions>>
  /\ IF code = << >>
     THEN UNCHANGED <<analysis, loading, error, currentFrameIndex, isPlaying,
                      playbackRef, timers, nextTimerId, inflight, crashed,
                      vizVars>>
     ELSE /\ loading' = TRUE
          /\ error' = FALSE
          /\ inflight' = Append(inflight, [code |-> code, mode |-> mode,
                                            previous |-> Screen])
          /\ Commit(Null, 0, FALSE, timers)

\* Mutant: a run that keeps the result on screen while the call is pending.
handleRunKeepsResult ==
  /\ UserOp("handleRun", 0)
  /\ ~loading
  /\ UNCHANGED <<mode, code, isDarkMode, dimensions>>
  /\ IF Trim(code) = << >>
     THEN UNCHANGED <<analysis, loading, error, currentFrameIndex, isPlaying,
                      playbackRef, timers, nextTimerId, inflight, crashed,
                      vizVars>>
     ELSE /\ loading' = TRUE
          /\ error' = FALSE
          /\ inflight' = Append(inflight, [code |-> code, mode |-> mode,
                                            previous |-> Screen])
          /\ Commit(analysis, 0, FALSE, timers)

\* Mutant: a run that does not reset the cursor when it is requested.
handleRunKeepsCursor ==
  /\ UserOp("handleRun", 0)
  /\ ~loading
  /\ UNCHANGED <<mode, code, isDarkMode, dimensions>>
  /\ IF Trim(code) = << >>
     THEN UNCHANGED <<analysis, loading, error, currentFrameIndex, isPlaying,
                      playbackRef, timers, nextTimerId, inflight, crashed,
                      vizVars>>
     ELSE /\ loading' = TRUE
          /\ error' = FALSE
          /\ inflight' = Append(inflight, [code |-> code, mode |-> mode,
                                            previous |-> Screen])
          /\ Commit(Null, currentFrameIndex, FALSE, timers)

\* const handleRun = async () => { ... await analyzeCode(code, mode)
handleRun ==
  /\ UserOp("handleRun", 0)
  /\ ~loading                                   \* disabled={loading}
  /\ UNCHANGED <<mode, code, isDarkMode, dimensions>>
  /\ IF Trim(code) = << >>
     THEN UNCHANGED <<analysis, loading, error, currentFrameIndex, isPlaying,
                      playbackRef, timers, nextTimerId, inflight, crashed,
                      vizVars>>
     ELSE /\ loading' = TRUE
          /\ error' = FALSE
          /\ inflight' = Append(inflight, [code |-> code, mode |-> mode,
                                            previous |-> Screen])
          /\ Commit(Null, 0, FALSE, timers)

\* ... the rest of handleRun, when the awaited call settles with resp
handleRunSettles(resp) ==
  /\ ~crashed
  /\ inflight # << >>
  /\ inflight' = Tail(inflight)
  /\ lastOp' = Event("handleRunSettles", 0,
                     IF resp.rejects THEN "rejects"
                     ELSE IF JSONparseThrows(resp) THEN "unparseable"
                     ELSE "resolves",
                     Head(inflight).previous)
  /\ loading' = FALSE
  /\ UNCHANGED <<mode, code, isDarkMode, ops, dimensions>>
  /\ LET r == analyzeCode(resp)
         \* result.frames.length throws on null and on an object without frames
         lengthThrows == ~r.throws /\ ~r.result.hasFrames
     IN  /\ error' = IF r.throws \/ lengthThrows THEN TRUE ELSE error
         /\ Commit(IF r.throws THEN analysis ELSE r.result,
                   IF ~r.throws /\ ~lengthThrows /\ Len(r.result.frames) > 0
                   THEN 0 ELSE currentFrameIndex,
                   isPlaying, timers)

\* Mutant: handleNext without setIsPlaying(false).
handleNextBodyKeepsPlaying ==
  IF Truthy(analysis) /\ currentFrameIndex < Len(analysis.frames) - 1
  THEN Commit(analysis, currentFrameIndex + 1, isPlaying, timers)
  ELSE Commit(analysis, currentFrameIndex, isPlaying, timers)

\* const handleNext = () => { if (...) { ... } }: without the guard nothing is
\* set and nothing re-renders.
handleNextBody ==
  IF Truthy(analysis) /\ currentFrameIndex < Len(analysis.frames) - 1
  THEN Commit(analysis, currentFrameIndex + 1, FALSE, timers)
  ELSE Commit(analysis, currentFrameIndex, isPlaying, timers)

\* Mutant: handlePrev without its guard.
handlePrevBodyUnguarded ==
  Commit(analysis, currentFrameIndex - 1, FALSE, timers)

handlePrevBody ==
  IF currentFrameIndex > 0
  THEN Commit(analysis, currentFrameIndex - 1, FALSE, timers)
  ELSE Commit(analysis, currentFrameIndex, isPlaying, timers)

\* The range input reports a value for the position asked for; the handler
\* parses it.
handleSliderChangeBody(requested) ==
  LET value == RangeInputValue(requested, 0, Len(analysis.frames) - 1)
  IN  Commit(analysis, parseInt(value), FALSE, timers)

\* A click on the next button, which is rendered with the controls and
\* disabled at the last index.
handleNext ==
  /\ UserOp("handleNext", 0)
  /\ ControlsVisible /\ ~NextDisabled
  /\ UNCHANGED <<mode, code, loading, error, isDarkMode, inflight, dimensions>>
  /\ handleNextBody

handlePrev ==
  /\ UserOp("handlePrev", 0)
  /\ ControlsVisible /\ ~PrevDisabled
  /\ UNCHANGED <<mode, code, loading, error, isDarkMode, inflight, dimensions>>
  /\ handlePrevBody

\* The user asks the slider for position `requested`.
handleSliderChange(requested) ==
  /\ UserOp("handleSliderChange", requested)
  /\ ControlsVisible
  /\ UNCHANGED <<mode, code, loading, error, isDarkMode, inflight, dimensions>>
  /\ handleSliderChangeBody(requested)

\* The three handlers called in any state, whether or not their control is
\* on screen and enabled.
stepForward ==
  /\ UserOp("stepForward", 0)
  /\ UNCHANGED <<mode, code, loading, error, isDarkMode, inflight, dimensions>>
  /\ handleNextBody

stepBackward ==
  /\ UserOp("stepBackward", 0)
  /\ UNCHANGED <<mode, code, loading, error, isDarkMode, inflight, dimensions>>
  /\ handlePrevBody

seek(requested) ==
  /\ UserOp("seek", requested)
  /\ UNCHANGED <<mode, code, loading, error, isDarkMode, inflight, dimensions>>
  /\ handleSliderChangeBody(requested)

\* Mutant: togglePlay that always goes back to the first frame.
togglePlayRewinds ==
  /\ UserOp("togglePlay", 0)
  /\ ControlsVisible
  /\ UNCHANGED <<mode, code, loading, error, isDarkMode, inflight, dimensions>>
  /\ Commit(analysis, 0, ~isPlaying, timers)

\* Mutant: togglePlay without the restart at the end.
togglePlayNoRestart ==
  /\ UserOp("togglePlay", 0)
  /\ ControlsVisible
  /\ UNCHANGED <<mode, code, loading, error, isDarkMode, inflight, dimensions>>
  /\ Commit(analysis, currentFrameIndex, ~isPlaying, timers)

togglePlay ==
  /\ UserOp("togglePlay", 0)
  /\ ControlsVisible
  /\ UNCHANGED <<mode, code, loading, error, isDarkMode, inflight, dimensions>>
  /\ Commit(analysis,
            IF currentFrameIndex >= FramesLengthOr0(analysis) - 1
            THEN 0 ELSE currentFrameIndex,
            ~isPlaying, timers)

\* Mutant: a callback that advances by two.
playbackTimeoutSkips(t) ==
  /\ ~crashed
  /\ t \in timers
  /\ lastOp' = Event("playbackTimeout", 0, "", NoScreen)
  /\ UNCHANGED <<mode, code, loading, error, isDarkMode, inflight, ops,
                 dimensions>>
  /\ Commit(analysis, currentFrameIndex + 2, isPlaying, timers \ {t})

\* The callback of the playback timeout t.
playbackTimeout(t) ==
  /\ ~crashed
  /\ t \in timers
  /\ lastOp' = Event("playbackTimeout", 0, "", NoScreen)
  /\ UNCHANGED <<mode, code, loading, error, isDarkMode, inflight, ops,
                 dimensions>>
  /\ Commit(analysis, currentFrameIndex + 1, isPlaying, timers \ {t})

\* Mutant: a theme toggle that also stops playback.
toggleThemeStopsPlayback ==
  /\ UserOp("toggleTheme", 0)
  /\ isDarkMode' = ~isDarkMode
  /\ UNCHANGED <<mode, code, loading, error, inflight, dimensions>>
  /\ Commit(analysis, currentFrameIndex, FALSE, timers)

\* onClick={() => setIsDarkMode(!isDarkMode)}
toggleTheme ==
  /\ UserOp("toggleTheme", 0)
  /\ isDarkMode' = ~isDarkMode
  /\ UNCHANGED <<mode, code, loading, error, inflight, dimensions>>
  /\ Commit(analysis, currentFrameIndex, isPlaying, timers)

editCode(text) ==
  /\ UserOp("editCode", 0)
  /\ text # code
  /\ code' = text
  /\ UNCHANGED <<mode, analysis, loading, error, currentFrameIndex, isPlaying,
                 playbackRef, isDarkMode, timers, nextTimerId, inflight, crashed,
                 dimensions, vizVars>>

playbackTimeouts == \E t \in timers : playbackTimeout(t)

Next ==
  \/ \E m \in EditorMode : handleModeChange(m)
  \/ handleRun
  \/ \E resp \in Responses : handleRunSettles(resp)
  \/ handleNext
  \/ handlePrev
  \/ \E k \in -1..MaxSeek : handleSliderChange(k)
  \/ togglePlay
  \/ playbackTimeouts
  \/ toggleTheme
  \/ \E text \in CodeInputs : editCode(text)

Spec == Init /\ [][Next]_vars

---------------------------------------------------------------------------
(* Visualizer: the events of the simulation, the pointer and the window *)

\* The svg is on the page and no loading overlay covers it.
SvgReachable == ~error /\ ~loading

VizEvent(name, arg) == /\ ~crashed
                       /\ lastOp' = Event(name, arg, "", NoScreen)

\* simulation.on("tick", ...): the timer of a running simulation fires and
\* its handler draws the positions.
tick(sim) ==
  /\ VizEvent("tick", 0)
  /\ sim \in simulations
  /\ ticked' = sim
  /\ UNCHANGED <<appVars, ops, dimensions, node, link, simulations, cleanup,
                 drag, pinned, mutated>>

ticks == \E sim \in simulations : tick(sim)

\* alpha falls below alphaMin: the simulation stops its own timer.
simulationEnds ==
  /\ VizEvent("end", 0)
  \* the drag of a shown node holds alphaTarget at 0.3
  /\ IF drag = << >> THEN TRUE ELSE drag[1].detached
  /\ "current" \in simulations
  /\ simulations' = simulations \ {"current"}
  /\ UNCHANGED <<appVars, ops, dimensions, node, link, cleanup, ticked, drag,
                 pinned, mutated>>

\* function dragstarted(event, d): the pointer goes down on the element of
\* node id.  Positions are counted from where the node is at that moment.
dragstarted(id) ==
  /\ UserOp("dragstarted", 0)
  /\ SvgReachable
  /\ drag = << >>
  /\ id \in {e.id : e \in node}
  /\ simulations' = simulations \cup {"current"}   \* alphaTarget(0.3).restart()
  /\ pinned' = pinned \cup {[id |-> id, at |-> 0]}        \* d.fx = d.x
  /\ drag' = <<[id |-> id, at |-> 0, detached |-> FALSE]>>
  /\ UNCHANGED <<appVars, dimensions, node, link, cleanup, ticked, mutated>>

\* function dragged(event, d): the pointer moves to x.
dragged(x) ==
  /\ UserOp("dragged", x)
  /\ drag # << >>
  /\ x # drag[1].at
  /\ drag' = <<[drag[1] EXCEPT !.at = x]>>
  /\ pinned' = IF drag[1].detached THEN pinned
               ELSE {p \in pinned : p.id # drag[1].id}
                      \cup {[id |-> drag[1].id, at |-> x]}
  /\ UNCHANGED <<appVars, dimensions, node, link, simulations, cleanup, ticked,
                 mutated>>

\* Mutant: a drag end that leaves fx and fy set.
dragendedKeepsPin ==
  /\ UserOp("dragended", 0)
  /\ drag # << >>
  /\ drag' = << >>
  /\ pinned' = pinned
  /\ UNCHANGED <<appVars, dimensions, node, link, simulations, cleanup, ticked,
                 mutated>>

\* function dragended(event, d): the pointer goes up.
dragended ==
  /\ UserOp("dragended", 0)
  /\ drag # << >>
  /\ drag' = << >>
  /\ pinned' = IF drag[1].detached THEN pinned
               ELSE {p \in pinned : p.id # drag[1].id}
  /\ UNCHANGED <<appVars, dimensions, node, link, simulations, cleanup, ticked,
                 mutated>>

\* The window is resized: updateSize sets new dimensions.
resize(size) ==
  /\ UserOp("resize", 0)
  /\ ~error
  /\ size # dimensions
  /\ dimensions' = size
  /\ UNCHANGED <<mode, code, loading, error, isDarkMode, inflight>>
  /\ Commit(analysis, currentFrameIndex, isPlaying, timers)

\* The events of the page together with those of the Visualizer, and with
\* responses whose edges name missing nodes.
NextViz ==
  \/ Next
  \/ \E resp \in DanglingResponses : handleRunSettles(resp)
  \/ ticks
  \/ simulationEnds
  \/ \E id \in {"n1", "n2"} : dragstarted(id)
  \/ \E x \in Positions : dragged(x)
  \/ dragended
  \/ \E size \in Sizes : resize(size)

SpecViz == Init /\ [][NextViz]_vars

\* The events of the page together with direct calls of the step handlers.
NextDirect ==
  \/ Next
  \/ stepForward
  \/ stepBackward
  \/ \E k \in -1..MaxSeek : seek(k)

SpecDirect == Init /\ [][NextDirect]_vars

\* The browser runs the callback of every timeout that stays pending.
SpecLive == Spec /\ WF_vars(playbackTimeouts)

TypeOK ==
  /\ mode \in EditorMode
  /\ loading \in BOOLEAN /\ error \in BOOLEAN /\ isPlaying \in BOOLEAN
  /\ isDarkMode \in BOOLEAN /\ crashed \in BOOLEAN
  /\ currentFrameIndex \in Int
  /\ playbackRef \in Nat /\ nextTimerId \in Nat
  /\ ops \in 0..MaxOps

---------------------------------------------------------------------------
(* Properties *)

\* A result with a frames list is on screen
Loaded == Truthy(analysis) /\ analysis.hasFrames

length == Len(analysis.frames)

Clamp(k, lo, hi) == IF k < lo THEN lo ELSE IF k > hi THEN hi ELSE k

CallFailed == lastOp.call \in {"rejects", "unparseable"}

\* C1: with a non-empty frame list loaded, the cursor is an index of the list,
\* the current frame is a frame of the list, and no render has thrown,
\* whatever steps, seeks, toggles and timer expiries came before.
C1_CursorInBounds ==
  (Loaded /\ length >= 1) =>
     /\ currentFrameIndex \in 0..(length - 1)
     /\ currentFrameOf(analysis, currentFrameIndex) = <<analysis.frames[currentFrameIndex + 1]>>
     /\ ~crashed

C1_Witness ==
  /\ Loaded /\ length = 3 /\ currentFrameIndex = 2
  /\ lastOp.name = "playbackTimeout"

\* C2: after a seek asking for any index k, the cursor is k clamped into
\* [0, length-1] and playing is false.
C2_SeekClamps ==
  lastOp.name = "handleSliderChange" =>
     /\ Loaded /\ length >= 1
     /\ currentFrameIndex = Clamp(lastOp.arg, 0, length - 1)
     /\ ~isPlaying

C2_Witness ==
  /\ lastOp.name = "handleSliderChange"
  /\ lastOp.arg > length - 1
  /\ lastOp.playing0
  /\ currentFrameIndex = length - 1

\* C3 as stated: when the call of a run requested over a loaded result R
\* fails, the error is set and R is still the loaded result.
C3_FailureKeepsPrevious ==
  (lastOp.name = "handleRunSettles" /\ CallFailed
     /\ Truthy(lastOp.previous.analysis)) =>
     (error /\ analysis = lastOp.previous.analysis)

\* C3 amended: the result on screen is discarded when the run is requested
\* (no result is loaded while the call is pending), and when the call fails
\* the error is set and no result is loaded.
C3_FailureLeavesNoResult ==
  /\ loading => analysis = Null
  /\ (lastOp.name = "handleRunSettles" /\ CallFailed) =>
        (error /\ analysis = Null /\ ~loading)

C3_Witness ==
  /\ lastOp.name = "handleRunSettles" /\ lastOp.call = "rejects"
  /\ Truthy(lastOp.previous.analysis)
  /\ Len(lastOp.previous.analysis.frames) = 3
  /\ error /\ analysis = Null

\* C4: whenever the error is set no result is installed, an installed result
\* always has a frames list, and no render fails reading the current frame.
C4_NoPartialResults ==
  /\ error => analysis = Null
  /\ Truthy(analysis) => analysis.hasFrames
  /\ ~crashed

\* C5: at most one playback timer is pending.
C5_AtMostOneTimer == Cardinality(timers) <= 1

C5_Witness ==
  /\ Cardinality(timers) = 1
  /\ lastOp.name = "playbackTimeout"
  /\ lastOp.timers0 # {}

\* An event that changed the sequencer's state
TookEffect ==
  \/ lastOp.name \in {"handleNext", "handlePrev"} /\ currentFrameIndex # lastOp.idx0
  \/ lastOp.name = "handleSliderChange"
  \/ lastOp.name = "togglePlay" /\ lastOp.playing0
  \/ lastOp.name = "handleRun" /\ Trim(code) # << >>
  \/ lastOp.name = "handleModeChange"

\* C6: a mutating operation that takes effect leaves none of the timers that
\* were pending before it, and while playing is false the cursor changes only
\* by a user operation.
C6_CancelOnMutate ==
  /\ [](TookEffect => timers \cap lastOp.timers0 = {})
  /\ [][(~isPlaying /\ ops' = ops) => currentFrameIndex' = currentFrameIndex]_vars

C6_Witness ==
  /\ lastOp.name = "handleModeChange"
  /\ lastOp.timers0 # {}
  /\ timers = {}

\* C7: a timer expires only while playing with the cursor below the last
\* index; it advances the cursor by exactly one, and then either the cursor is
\* still below the last index and exactly one new timer is pending, or the
\* cursor is the last index, playing is false and no timer is pending.
C7_AdvanceByOne ==
  lastOp.name = "playbackTimeout" =>
     /\ lastOp.playing0 /\ lastOp.idx0 < length - 1
     /\ currentFrameIndex = lastOp.idx0 + 1
     /\ currentFrameIndex <= length - 1
     /\ currentFrameIndex < length - 1 =>
           (isPlaying /\ Cardinality(timers) = 1 /\ timers \cap lastOp.timers0 = {})
     /\ currentFrameIndex = length - 1 => (~isPlaying /\ timers = {})

C7_Witness ==
  /\ lastOp.name = "playbackTimeout"
  /\ length = 3 /\ currentFrameIndex = 1
  /\ isPlaying /\ timers # {}

\* C8: playing always becomes false again; when it does so without a user
\* operation (by a timer expiry) the cursor is then the last index; without a
\* user operation playing stays false once false, and while playing the
\* cursor moves one index at a time.  So a playback no user operation
\* interrupts visits every index up to the last one in order and ends there.
C8_PlaybackTerminates ==
  /\ isPlaying ~> ~isPlaying
  /\ [][(isPlaying /\ ~isPlaying' /\ ops' = ops) =>
          (Loaded /\ currentFrameIndex' = length - 1)]_vars
  /\ [][(~isPlaying /\ ops' = ops) => ~isPlaying']_vars
  /\ [][(isPlaying /\ ops' = ops) =>
          currentFrameIndex' \in {currentFrameIndex, currentFrameIndex + 1}]_vars

C8_Witness ==
  /\ lastOp.name = "playbackTimeout"
  /\ Loaded /\ length = 3 /\ currentFrameIndex = 2 /\ ~isPlaying
  /\ lastOp.idx0 = 1
  /\ ops = 2

\* C9 as stated: togglePlay at the last index of any non-empty list leaves
\* cursor 0 and playing true.
C9_RestartOnReplay ==
  (lastOp.name = "togglePlay" /\ lastOp.idx0 = length - 1) =>
     (currentFrameIndex = 0 /\ isPlaying)

\* C9 amended: togglePlay at the last index leaves cursor 0; playing is true
\* (with a timer pending) when the list has at least two frames and false
\* when it has a single frame.
C9_RestartOnReplayFromTwo ==
  (lastOp.name = "togglePlay" /\ lastOp.idx0 = length - 1) =>
     /\ currentFrameIndex = 0
     /\ length >= 2 => (isPlaying /\ Cardinality(timers) = 1)
     /\ length = 1 => (~isPlaying /\ timers = {})

C9_Witness ==
  /\ lastOp.name = "togglePlay" /\ lastOp.idx0 = 2 /\ length = 3
  /\ currentFrameIndex = 0 /\ isPlaying

\* C10: right after a completed run installs a result, the cursor is 0,
\* playing is false and no timer is pending, whatever was on screen when the
\* run was requested.
C10_LoadResets ==
  (lastOp.name = "handleRunSettles" /\ Loaded) =>
     (currentFrameIndex = 0 /\ ~isPlaying /\ timers = {})

C10_Witness ==
  /\ lastOp.name = "handleRunSettles" /\ Loaded /\ length >= 2
  /\ lastOp.previous.isPlaying /\ lastOp.previous.timers # {}
  /\ lastOp.previous.currentFrameIndex > 0
  /\ currentFrameIndex = 0

---------------------------------------------------------------------------
(* Step handlers at the boundaries and on an empty list (SpecDirect) *)

StepForwardCalled == lastOp.name \in {"handleNext", "stepForward"}

StepBackwardCalled == lastOp.name \in {"handlePrev", "stepBackward"}

SeekCalled == lastOp.name \in {"handleSliderChange", "seek"}

\* No result on screen, or a result with an empty frame list
NoFrames == ~Truthy(analysis) \/ (Loaded /\ length = 0)

\* C11: a step forward taken at the last index and a step backward taken at
\* index 0 change nothing of the playback state: not the result, the cursor,
\* the playing flag, nor the pending timer; so any number of them in a row
\* changes nothing either.
C11_BoundaryIdempotent ==
  [][(\/ /\ ops' = ops + 1
         /\ lastOp'.name \in {"handleNext", "stepForward"}
         /\ Loaded /\ length >= 1 /\ currentFrameIndex = length - 1
      \/ /\ ops' = ops + 1
         /\ lastOp'.name \in {"handlePrev", "stepBackward"}
         /\ currentFrameIndex = 0)
     => UNCHANGED <<analysis, currentFrameIndex, isPlaying, playbackRef,
                    timers, nextTimerId, crashed>>]_vars

\* A step backward was called at index 0 while a timer was pending, and the
\* timer is still pending.
C11_Witness ==
  /\ lastOp.name = "stepBackward"
  /\ lastOp.idx0 = 0 /\ lastOp.playing0 /\ lastOp.timers0 # {}
  /\ currentFrameIndex = 0 /\ isPlaying /\ timers = lastOp.timers0

C13_ManualStep ==
  /\ StepForwardCalled =>
        /\ lastOp.idx0 < length - 1 =>
              currentFrameIndex = lastOp.idx0 + 1 /\ ~isPlaying
        /\ (length >= 1 /\ lastOp.idx0 = length - 1) =>
              currentFrameIndex = lastOp.idx0
  /\ StepBackwardCalled =>
        /\ lastOp.idx0 > 0 =>
              currentFrameIndex = lastOp.idx0 - 1 /\ ~isPlaying
        /\ lastOp.idx0 = 0 => currentFrameIndex = 0

\* A step forward was taken during playback, two frames before the end.
C13_Witness ==
  /\ StepForwardCalled
  /\ length = 3 /\ lastOp.idx0 = 0 /\ lastOp.playing0
  /\ currentFrameIndex = 1 /\ ~isPlaying /\ timers = {}

---------------------------------------------------------------------------
(* Mode changes *)

\* The response that settled last answers a request made in another mode
\* than the one now selected.
StaleResponse ==
  lastOp.name = "handleRunSettles" /\ lastOp.previous.mode # mode

\* C14: a response that arrives after the mode was switched is discarded: it
\* installs no result and sets no error.
C14_StaleResponseDiscarded ==
  StaleResponse => (analysis = Null /\ ~error)

\* C15: right after a mode change, whatever came before, there is no result,
\* the cursor is 0, playing is false, no error is shown, no timer is pending
\* and the code is the template of the new mode.
C15_ModeSwitchResets ==
  lastOp.name = "handleModeChange" =>
     /\ analysis = Null
     /\ currentFrameIndex = 0
     /\ ~isPlaying
     /\ ~error
     /\ timers = {}
     /\ code = CODE_TEMPLATES[mode]

\* The mode was changed during playback, past the first frame, with a timer
\* pending.
C15_Witness ==
  /\ lastOp.name = "handleModeChange"
  /\ lastOp.playing0 /\ lastOp.timers0 # {} /\ lastOp.idx0 > 0
  /\ mode # "python"
  /\ analysis = Null /\ timers = {}

---------------------------------------------------------------------------
(* The Visualizer (SpecViz) *)

\* A frame of the installed result is the current frame
FrameShown == Loaded /\ length >= 1 /\ currentFrameIndex \in 0..(length - 1)

currentFrame == analysis.frames[currentFrameIndex + 1]

RenderedNodes == {e.id : e \in node}

RenderedEdges == {<<e.source, e.target>> : e \in link}

\* The edges of frame f whose source and target are nodes of f
ValidEdges(f) ==
  {<<f.edges[k].source, f.edges[k].target>> :
     k \in {j \in DOMAIN f.edges : /\ f.edges[j].source \in NodeIds(f.nodes)
                                    /\ f.edges[j].target \in NodeIds(f.nodes)}}

HasDanglingEdge(f) == LinkForceThrows(f.nodes, f.edges)

\* C16: whatever frame is current, also one with an edge whose source or
\* target is no node of the frame, the render has not thrown, every node of
\* the frame is drawn, and the edges drawn are exactly those with both
\* endpoints among the frame's nodes.
C16_DanglingEdgesDropped ==
  FrameShown =>
     /\ ~crashed
     /\ RenderedNodes = NodeIds(currentFrame.nodes)
     /\ RenderedEdges = ValidEdges(currentFrame)

\* The cursor has just moved to a neighbouring frame of the same result.
MovedByOne ==
  /\ lastOp.name \in {"handleNext", "handlePrev", "handleSliderChange",
                      "playbackTimeout"}
  /\ Loaded
  /\ lastOp.idx0 \in 0..(length - 1) /\ currentFrameIndex \in 0..(length - 1)
  /\ currentFrameIndex - lastOp.idx0 \in {1, -1}

\* The nodes both frames contain, with the same id and label
KeptNodes ==
  LET before == analysis.frames[lastOp.idx0 + 1].nodes
      after == analysis.frames[currentFrameIndex + 1].nodes
  IN  {before[k] : k \in DOMAIN before} \cap {after[k] : k \in DOMAIN after}

ElementsOf(id) == {e \in node : e.id = id}

\* C17 as stated: after the cursor moved between two consecutive frames that
\* both contain a node, the one element drawn for it is the element the
\* previous render drew (it was kept, not created anew).
C17_NodeElementReused ==
  MovedByOne =>
     \A n \in KeptNodes :
        /\ Cardinality(ElementsOf(n.id)) = 1
        /\ \A e \in ElementsOf(n.id) : ~e.fresh

\* C17 as the code has it: no node id ever has two elements, and after the
\* cursor moved between two consecutive frames that both contain a node and
\* the render completed, the node has exactly one element, created by that
\* render.
C17_NodeElementRebuilt ==
  /\ \A e1, e2 \in node : e1.id = e2.id => e1 = e2
  /\ (MovedByOne /\ ~crashed) =>
        \A n \in KeptNodes :
           /\ Cardinality(ElementsOf(n.id)) = 1
           /\ \A e \in ElementsOf(n.id) : e.fresh /\ e.label = n.label

\* The cursor stepped from a frame with n1 to the next, which has n1 and n2.
C17_Witness ==
  /\ MovedByOne /\ ~crashed
  /\ GraphNode("n1") \in KeptNodes
  /\ RenderedNodes = {"n1", "n2"}
  /\ \A e \in node : e.fresh

\* C18: no step, seek, toggle, timer expiry, render, tick, drag or resize
\* changes the installed result, and the renderer never writes to an object
\* of a stored frame: the simulation works on copies, so source and target of
\* every stored edge stay id strings.
C18_FramesImmutable ==
  [][/\ lastOp'.name \notin {"handleRun", "handleRunSettles", "handleModeChange"}
        => analysis' = analysis
     /\ mutated' = {}]_vars

\* A simulation drew a tick of a frame with edges.
C18_Witness ==
  /\ lastOp.name = "tick" /\ ticked = "current"
  /\ FrameShown /\ Len(currentFrame.edges) > 0 /\ link # {}
  /\ mutated = {}

\* C19: at most one simulation runs, it is the one the latest render
\* created, no tick of an earlier one draws the view, and none runs once the
\* Visualizer is discarded (the error panel replaced it, or the root was
\* unmounted).
C19_SimulationTeardown ==
  /\ Cardinality(simulations) <= 1
  /\ "stale" \notin simulations
  /\ ticked # "stale"
  /\ (error \/ crashed) => simulations = {}

\* C20: a shown node is pinned exactly while it is dragged, at the pointer's
\* position; with no drag in progress no node is pinned.
C20_DragPinning ==
  pinned = IF drag # << >> /\ ~drag[1].detached
           THEN {[id |-> drag[1].id, at |-> drag[1].at]}
           ELSE {}

\* The pointer moved during a drag and the pin moved with it.
C20_Witness ==
  /\ lastOp.name = "dragged"
  /\ drag # << >> /\ ~drag[1].detached
  /\ pinned = {[id |-> drag[1].id, at |-> lastOp.arg]}

---------------------------------------------------------------------------
(* Playback state *)

\* C21: a playback timer is pending exactly when playing is true, a result is
\* loaded and the cursor is below the last index; so playing is never true
\* with no result, an empty frame list, or the cursor at the last index.
C21_TimerIffPlaying ==
  /\ (timers # {}) <=> (isPlaying /\ Loaded /\ currentFrameIndex < length - 1)
  /\ isPlaying => (Loaded /\ length >= 1 /\ currentFrameIndex < length - 1)

\* A timer expired in mid-sequence and the next one is pending.
C21_Witness ==
  /\ lastOp.name = "playbackTimeout"
  /\ isPlaying /\ Loaded /\ currentFrameIndex < length - 1
  /\ Cardinality(timers) = 1

\* C22: togglePlay below the last index flips playing and leaves the cursor
\* and the result as they were; when it resumes, one timer is pending at the
\* same cursor; a second togglePlay right after a first (no expiry between)
\* gives back the cursor and the flag the first one found.
C22_PauseResume ==
  [][(/\ ops' = ops + 1
      /\ lastOp'.name = "togglePlay"
      /\ currentFrameIndex < length - 1)
     => /\ currentFrameIndex' = currentFrameIndex
        /\ isPlaying' = ~isPlaying
        /\ analysis' = analysis
        /\ isPlaying' => Cardinality(timers') = 1
        /\ ~isPlaying' => timers' = {}
        /\ (lastOp.name = "togglePlay" /\ lastOp.idx0 < length - 1)
              => /\ currentFrameIndex' = lastOp.idx0
                 /\ isPlaying' = lastOp.playing0]_vars

\* Playback was resumed in mid-sequence: the cursor stayed, a timer is armed.
C22_Witness ==
  /\ lastOp.name = "togglePlay"
  /\ ~lastOp.playing0 /\ lastOp.idx0 = 1 /\ length = 3
  /\ isPlaying /\ currentFrameIndex = 1 /\ Cardinality(timers) = 1

---------------------------------------------------------------------------
(* Run requests *)

\* C23: at most one analysis call is awaiting its response, and loading is
\* true exactly while one is.
C23_SingleInFlight ==
  /\ Len(inflight) <= 1
  /\ loading <=> (inflight # << >>)

\* The mode was switched while a call was pending; it is still the only one.
C23_Witness ==
  /\ lastOp.name = "handleModeChange"
  /\ loading /\ Len(inflight) = 1

\* C24: while loading is true there is no result, no error, the cursor is 0
\* and playing is false, whatever mode switches, theme toggles and edits
\* happened since the request.
C24_LoadingInvariant ==
  loading => /\ analysis = Null
             /\ ~error
             /\ currentFrameIndex = 0
             /\ ~isPlaying

\* A request made past the first frame is pending and the theme was toggled.
C24_Witness ==
  /\ loading
  /\ lastOp.name = "toggleTheme"
  /\ Head(inflight).previous.currentFrameIndex > 0
  /\ analysis = Null /\ currentFrameIndex = 0

\* C25: when the call of a run request has resolved or rejected, loading is
\* false again and either a result is installed and no error is set, or the
\* error is set and no result is installed.
C25_RunCompletes ==
  lastOp.name = "handleRunSettles" =>
     /\ ~loading
     /\ \/ Truthy(analysis) /\ ~error
        \/ error /\ ~Truthy(analysis)

\* C26: a run requested with empty or whitespace-only code makes no analysis
\* call and leaves loading, the error, the result, the cursor, playing and
\* the pending timer as they were.
C26_BlankRunNoOp ==
  [][(/\ ops' = ops + 1
      /\ lastOp'.name = "handleRun"
      /\ Trim(code) = << >>)
     => UNCHANGED <<inflight, loading, error, analysis, currentFrameIndex,
                    isPlaying, playbackRef, timers, nextTimerId>>]_vars

\* A run was requested with whitespace-only code during playback; the timer
\* is still pending and no call was made.
C26_Witness ==
  /\ lastOp.name = "handleRun"
  /\ code # << >> /\ Trim(code) = << >>
  /\ isPlaying /\ timers # {} /\ timers = lastOp.timers0
  /\ inflight = << >> /\ ~loading

\* C27: a theme toggle and an edit of the code leave the result, the cursor
\* and playing as they were and neither clear nor add a playback timer.
C27_ThemeAndEditKeepPlayback ==
  [][(/\ ops' = ops + 1
      /\ lastOp'.name \in {"toggleTheme", "editCode"})
     => UNCHANGED <<analysis, currentFrameIndex, isPlaying, playbackRef, timers,
                    nextTimerId>>]_vars

\* The theme was toggled during playback and the same timer is still pending.
C27_Witness ==
  /\ lastOp.name = "toggleTheme"
  /\ isPlaying /\ lastOp.playing0
  /\ timers # {} /\ timers = lastOp.timers0

---------------------------------------------------------------------------
(* The view and the current frame *)

CursorChanged ==
  /\ lastOp.name \in {"handleNext", "handlePrev", "handleSliderChange",
                      "togglePlay", "playbackTimeout"}
  /\ currentFrameIndex # lastOp.idx0

\* No frame is current, or the current frame has neither nodes nor edges
NothingToDraw ==
  \/ currentFrameOf(analysis, currentFrameIndex) = << >>
  \/ /\ FrameShown
     /\ Len(currentFrame.nodes) = 0 /\ Len(currentFrame.edges) = 0

\* C28: after a render caused by a change of the cursor the node elements are
\* those of the current frame's nodes, one each; and with no current frame,
\* or one without nodes and edges, the svg has no elements.
C28_ViewMatchesFrame ==
  /\ (CursorChanged /\ FrameShown) =>
        /\ RenderedNodes = NodeIds(currentFrame.nodes)
        /\ Cardinality(node) = Len(currentFrame.nodes)
  /\ NothingToDraw => (node = {} /\ link = {})

=============================================================================
